---- MODULE Spec2Model ----
(***************************************************************************)
(* Model of pages/04_GNP.py: the country-name normalizer, the many-to-one  *)
(* join of the MBTI table with the economic table, the optional log1p      *)
(* transform, compute_correlations and the display sort, run as one script *)
(* pass per user interaction on top of the st.cache_data store of load_csv.*)
(*                                                                         *)
(* Encoding.  A string is a sequence of tokens: a token is either one      *)
(* whitespace character or one maximal run of non-whitespace characters    *)
(* (a word), which strip / \s+ never look inside.  A cell of a table is    *)
(* Str(s), Num(v), NaN or NegInf.  A table is [cols, dtype, rows], rows     *)
(* being functions from the column names to cells.                         *)
(***************************************************************************)
EXTENDS Integers, Sequences, FiniteSets, TLC

VARIABLES
    pc,              \* position of the script pass
    cache,           \* st.cache_data store of load_csv: path -> table
    df_mbti, df_gnp, \* working frames of the pass: [tbl, alias]
    mbti_cols,       \* numeric MBTI columns  (line 125)
    candidate_y,     \* recognised indicator columns (line 128)
    y_col, log_scale, use_abs_sort,   \* sidebar widgets (lines 139-141)
    df_join,         \* result of pd.merge (line 144)
    report,          \* the counts written by the match expander (153-160)
    y_for_corr,      \* column name handed to compute_correlations
    corr_df,         \* result of compute_correlations
    corr_df_display, \* corr_df after sort_values
    outcome,         \* "ok", an st.error/st.stop halt, or an uncaught exception
    series, raw, norm_calls   \* a Series under normalize_country_name

vars == <<pc, cache, df_mbti, df_gnp, mbti_cols, candidate_y, y_col, log_scale,
          use_abs_sort, df_join, report, y_for_corr, corr_df, corr_df_display,
          outcome, series, raw, norm_calls>>

passVars == <<pc, cache, df_mbti, df_gnp, mbti_cols, candidate_y, y_col,
              log_scale, use_abs_sort, df_join, report, y_for_corr, corr_df,
              corr_df_display, outcome>>

normVars == <<series, raw, norm_calls>>

----------------------------------------------------------------------------
(* Cells *)

Str(s) == [k |-> "str", s |-> s]
Num(v) == [k |-> "num", v |-> v]
NaN == [k |-> "nan"]
NegInf == [k |-> "neginf"]

isna(c) == c.k = "nan"

----------------------------------------------------------------------------
(* normalize_country_name *)

Whitespace == {" ", "\t"}

\* "a b c" as tokens: the words with one space between neighbours
RECURSIVE Words(_)
Words(ws) ==
    IF Len(ws) = 0 THEN <<>>
    ELSE IF Len(ws) = 1 THEN <<ws[1]>>
    ELSE <<ws[1], " ">> \o Words(Tail(ws))

\* chained variant of the alias table: an alias target that is itself a key
repl_chained ==
    { <<Words(<<"Vietnam">>), Words(<<"Viet", "Nam">>)>>,
      <<Words(<<"Viet", "Nam">>), Words(<<"Vietnam,", "Socialist", "Republic", "of">>)>>,
      <<Words(<<"Congo", "(Brazzaville)">>), Words(<<"Congo">>)>> }

repl ==
    { <<Words(<<"United", "States">>), Words(<<"United", "States", "of", "America">>)>>,
      <<Words(<<"Russia">>), Words(<<"Russian", "Federation">>)>>,
      <<Words(<<"South", "Korea">>), Words(<<"Korea,", "Republic", "of">>)>>,
      <<Words(<<"North", "Korea">>),
        Words(<<"Korea,", "Democratic", "People's", "Republic", "of">>)>>,
      <<Words(<<"Vietnam">>), Words(<<"Viet", "Nam">>)>>,
      <<Words(<<"Czech", "Republic">>), Words(<<"Czechia">>)>>,
      <<Words(<<"Ivory", "Coast">>), Words(<<"Cote", "d'Ivoire">>)>>,
      <<Words(<<"Tanzania">>), Words(<<"United", "Republic", "of", "Tanzania">>)>>,
      <<Words(<<"Syria">>), Words(<<"Syrian", "Arab", "Republic">>)>>,
      <<Words(<<"Macau">>), Words(<<"Macao">>)>>,
      <<Words(<<"Hong", "Kong">>), Words(<<"Hong", "Kong", "SAR,", "China">>)>>,
      <<Words(<<"Iran">>), Words(<<"Iran,", "Islamic", "Republic", "of">>)>>,
      <<Words(<<"Moldova">>), Words(<<"Moldova,", "Republic", "of">>)>>,
      <<Words(<<"Laos">>), Words(<<"Lao", "People's", "Democratic", "Republic">>)>>,
      <<Words(<<"Bolivia">>), Words(<<"Bolivia", "(Plurinational", "State", "of)">>)>>,
      <<Words(<<"Venezuela">>),
        Words(<<"Venezuela", "(Bolivarian", "Republic", "of)">>)>>,
      <<Words(<<"Brunei">>), Words(<<"Brunei", "Darussalam">>)>>,
      <<Words(<<"Cape", "Verde">>), Words(<<"Cabo", "Verde">>)>>,
      <<Words(<<"Congo", "(Kinshasa)">>),
        Words(<<"Congo,", "the", "Democratic", "Republic", "of", "the">>)>>,
      <<Words(<<"Congo", "(Brazzaville)">>), Words(<<"Congo">>)>>,
      <<Words(<<"Micronesia">>), Words(<<"Micronesia,", "Federated", "States", "of">>)>>,
      <<Words(<<"The", "Bahamas">>), Words(<<"Bahamas">>)>>,
      <<Words(<<"Gambia">>), Words(<<"Gambia,", "The">>)>>,
      <<Words(<<"Eswatini">>), Words(<<"Swaziland">>)>>,
      <<Words(<<"Burma">>), Words(<<"Myanmar">>)>>,
      <<Words(<<"Kyrgyzstan">>), Words(<<"Kyrgyz", "Republic">>)>> }

\* .astype(str): a missing value becomes the string "nan"
astype_str(c) == IF c.k = "str" THEN c.s ELSE <<"nan">>

RECURSIVE lstrip(_)
lstrip(s) ==
    IF Len(s) > 0 /\ s[1] \in Whitespace THEN lstrip(Tail(s)) ELSE s

RECURSIVE rstrip(_)
rstrip(s) ==
    IF Len(s) > 0 /\ s[Len(s)] \in Whitespace
    THEN rstrip(SubSeq(s, 1, Len(s) - 1)) ELSE s

\* .str.strip()
strip(s) == rstrip(lstrip(s))

\* .str.replace(r"\s+", " ", regex=True): every maximal whitespace run -> " "
RECURSIVE collapse(_)
collapse(s) ==
    IF Len(s) = 0 THEN <<>>
    ELSE IF s[1] \in Whitespace
         THEN <<" ">> \o collapse(lstrip(s))
         ELSE <<s[1]>> \o collapse(Tail(s))

\* Series.replace(dict): whole-value lookup, one substitution, no chaining
replace(s, table) ==
    IF \E e \in table : e[1] = s
    THEN (CHOOSE e \in table : e[1] = s)[2]
    ELSE s

\* one element of the Series (lines 28, 57)
normalize_one(c) == replace(collapse(strip(astype_str(c))), repl)

\* lines 22-58: same length, same order, cell by cell
normalize_country_name(s) == [i \in 1..Len(s) |-> Str(normalize_one(s[i]))]

----------------------------------------------------------------------------
(* Bounded inputs of the normalizer *)

MaxLen == 4

Alphabet == {" ", "\t", "Viet", "Nam", "Vietnam"}

RECURSIVE SeqsUpTo(_, _)
SeqsUpTo(S, n) ==
    IF n = 0 THEN {<<>>}
    ELSE LET shorter == SeqsUpTo(S, n - 1)
         IN  shorter \cup { Append(s, a) : s \in {t \in shorter : Len(t) = n - 1}, a \in S }

\* every key and every target of the table, bare and padded, plus all short strings
TableStrings == { e[1] : e \in repl } \cup { e[2] : e \in repl }

RawStrings ==
    SeqsUpTo(Alphabet, MaxLen)
    \cup TableStrings
    \cup { <<" ">> \o s \o <<"\t", " ">> : s \in TableStrings }

----------------------------------------------------------------------------
(* Tables (pandas DataFrame): column order, column dtype, rows *)

NoTable == [cols |-> <<>>, dtype |-> <<>>, rows |-> <<>>, none |-> TRUE]

Range(f) == { f[i] : i \in DOMAIN f }

Column(t, c) == [i \in 1..Len(t.rows) |-> t.rows[i][c]]

HasColumn(t, c) == c \in Range(t.cols)

\* dtype pandas infers for a parsed or assigned column: no row or any string
\* gives object, otherwise float64
infer_dtype(cells) ==
    IF Len(cells) = 0 \/ \E i \in 1..Len(cells) : cells[i].k = "str"
    THEN "object" ELSE "float64"

\* pd.read_csv: the parsed frame of a CSV text [cols, rows]
read_csv(csv) ==
    [cols |-> csv.cols,
     dtype |-> [c \in Range(csv.cols) |->
                   infer_dtype([i \in 1..Len(csv.rows) |-> csv.rows[i][c]])],
     rows |-> csv.rows]

\* df[c] = vals with an explicit dtype (a new column goes last)
SetColumn(t, c, vals, dt) ==
    [cols |-> IF HasColumn(t, c) THEN t.cols ELSE Append(t.cols, c),
     dtype |-> [k \in Range(t.cols) \cup {c} |-> IF k = c THEN dt ELSE t.dtype[k]],
     rows |-> [i \in 1..Len(t.rows) |->
                 [k \in Range(t.cols) \cup {c} |->
                     IF k = c THEN vals[i] ELSE t.rows[i][k]]]]

\* df[[c1, c2, ...]]
Select(t, cs) ==
    [cols |-> cs,
     dtype |-> [k \in Range(cs) |-> t.dtype[k]],
     rows |-> [i \in 1..Len(t.rows) |-> [k \in Range(cs) |-> t.rows[i][k]]]]

\* df.rename(columns=m): m is a set of <<old, new>>; absent keys are ignored
NewName(m, c) == IF \E e \in m : e[1] = c THEN (CHOOSE e \in m : e[1] = c)[2] ELSE c

OldName(t, m, n) == CHOOSE c \in Range(t.cols) : NewName(m, c) = n

rename(t, m) ==
    LET newcols == [i \in 1..Len(t.cols) |-> NewName(m, t.cols[i])]
    IN  [cols |-> newcols,
         dtype |-> [n \in Range(newcols) |-> t.dtype[OldName(t, m, n)]],
         rows |-> [i \in 1..Len(t.rows) |->
                     [n \in Range(newcols) |-> t.rows[i][OldName(t, m, n)]]]]

\* pd.api.types.is_numeric_dtype(df[c])
is_numeric_dtype(t, c) == t.dtype[c] = "float64"

\* Series.nunique(): distinct values, missing ones not counted
nunique(cells) == Cardinality({ cells[i] : i \in DOMAIN cells } \ {NaN})

\* set(Series): the values as a Python set (one missing value is one element)
pyset(cells) == { cells[i] : i \in DOMAIN cells }

RECURSIVE SelectSeq2(_, _, _)
SelectSeq2(s, i, keep) ==
    IF i > Len(s) THEN <<>>
    ELSE (IF s[i] \in keep THEN <<s[i]>> ELSE <<>>) \o SelectSeq2(s, i + 1, keep)

----------------------------------------------------------------------------
(* pd.merge(left, right, on=key, how="inner", validate=...) *)

\* the columns of the result: left's, then right's without the key
MergedCols(left, right, key) ==
    left.cols \o SelectSeq2(right.cols, 1, Range(right.cols) \ {key})

MergedRow(left, right, key, lrow, rrow) ==
    [k \in Range(left.cols) \cup Range(right.cols) |->
        IF k \in Range(left.cols) THEN lrow[k] ELSE rrow[k]]

\* the right rows matching one left row, in right order
RECURSIVE MatchesOf(_, _, _, _, _)
MatchesOf(left, right, key, lrow, j) ==
    IF j > Len(right.rows) THEN <<>>
    ELSE (IF right.rows[j][key] = lrow[key]
          THEN <<MergedRow(left, right, key, lrow, right.rows[j])>>
          ELSE <<>>) \o MatchesOf(left, right, key, lrow, j + 1)

\* inner join, left order kept
RECURSIVE InnerRows(_, _, _, _)
InnerRows(left, right, key, i) ==
    IF i > Len(left.rows) THEN <<>>
    ELSE MatchesOf(left, right, key, left.rows[i], 1)
         \o InnerRows(left, right, key, i + 1)

\* _maybe_coerce_merge_keys: the dtype check is skipped when exactly one side
\* has no row; otherwise string keys cannot be merged with float keys
KeysIncompatible(left, right, key) ==
    /\ ~ ((Len(left.rows) > 0 /\ Len(right.rows) = 0)
          \/ (Len(left.rows) = 0 /\ Len(right.rows) > 0))
    /\ left.dtype[key] # right.dtype[key]

\* is_unique of the right keys (missing values compare equal here)
RightUnique(right, key) ==
    \A i, j \in 1..Len(right.rows) :
        right.rows[i][key] = right.rows[j][key] => i = j

\* validate omitted: duplicates on the right give one row per duplicate
validate_none(right, key) == TRUE

\* validate="m:1"
validate_m1(right, key) == RightUnique(right, key)

merge(left, right, key) ==
    IF KeysIncompatible(left, right, key)
    THEN [err |-> "ValueError", tbl |-> NoTable]
    ELSE IF ~ validate_m1(right, key)
    THEN [err |-> "MergeError", tbl |-> NoTable]
    ELSE [err |-> "none",
          tbl |-> [cols |-> MergedCols(left, right, key),
                   dtype |-> [k \in Range(MergedCols(left, right, key)) |->
                                 IF k \in Range(left.cols) THEN left.dtype[k]
                                 ELSE right.dtype[k]],
                   rows |-> InnerRows(left, right, key, 1)]]

\* lines 144-150
join_frames(mbti, gnp, cols, y) ==
    LET m == merge(Select(mbti, <<"Country", "Country_norm">> \o cols),
                   Select(gnp, <<"Country_norm", y>>), "Country_norm")
    IN  IF m.err = "none"
        THEN [err |-> "none", tbl |-> rename(m.tbl, {<<y, "Y_value">>})]
        ELSE m

\* lines 153-160
match_report(mbti, gnp, joined) ==
    [n_mbti |-> nunique(Column(mbti, "Country_norm")),
     n_gnp |-> nunique(Column(gnp, "Country_norm")),
     matched |-> nunique(Column(joined, "Country_norm")),
     miss_mbti |-> pyset(Column(mbti, "Country_norm")) \ pyset(Column(joined, "Country_norm")),
     miss_gnp |-> pyset(Column(gnp, "Country_norm")) \ pyset(Column(joined, "Country_norm"))]

----------------------------------------------------------------------------
(* Inputs of a pass: the uploaded CSVs and the default files *)

MaxRows == 2

MbtiNames == { <<"Viet", " ", "Nam">>, <<"Chile">> }

GnpNames == { <<"Vietnam">>, <<"Viet", "\t", "Nam">>, <<"Peru">> }

MbtiRows == { [Country |-> Str(n), INFJ |-> Num(1)] : n \in MbtiNames }

GnpRows == { [Country |-> Str(n), GNP |-> Num(3)] : n \in GnpNames }

\* the same rows under other headers
Project(rows, cs) == [i \in 1..Len(rows) |-> [k \in Range(cs) |-> rows[i][k]]]

Relabel(rows, old, new) ==
    [i \in 1..Len(rows) |->
        [k \in (DOMAIN rows[i] \ {old}) \cup {new} |->
            IF k = new THEN rows[i][old] ELSE rows[i][k]]]

RowCounts == { <<>> } \cup { [i \in 1..n |-> [INFJ |-> Num(1), GNP |-> Num(3)]] : n \in 1..MaxRows }

\* MBTI uploads: with the Country column, or without it
MbtiUploads ==
    { [cols |-> <<"Country", "INFJ">>, rows |-> r] : r \in SeqsUpTo(MbtiRows, MaxRows) }
    \cup { [cols |-> <<"INFJ">>, rows |-> Project(r, <<"INFJ">>)] : r \in RowCounts }

\* GNP uploads: Country and an indicator, no Country, or no recognised indicator
GnpUploads ==
    { [cols |-> <<"Country", "GNP">>, rows |-> r] : r \in SeqsUpTo(GnpRows, MaxRows) }
    \cup { [cols |-> <<"GNP">>, rows |-> Project(r, <<"GNP">>)] : r \in RowCounts }
    \cup { [cols |-> <<"Country", "Population">>, rows |-> Relabel(r, "GNP", "Population")] :
             r \in SeqsUpTo(GnpRows, MaxRows) }

MbtiPath == "countriesMBTI_16types.csv"

GnpPath == "country_gnp.csv"

Paths == {MbtiPath, GnpPath}

\* what the default files hold when they exist
DefaultFile(path) ==
    IF path = MbtiPath
    THEN [cols |-> <<"Country", "INFJ">>,
          rows |-> << [Country |-> Str(<<"Viet", " ", "Nam">>), INFJ |-> Num(1)],
                      [Country |-> Str(<<"Chile">>), INFJ |-> Num(1)] >>]
    ELSE [cols |-> <<"Country", "GNP">>,
          rows |-> << [Country |-> Str(<<"Vietnam">>), GNP |-> Num(3)],
                      [Country |-> Str(<<"Peru">>), GNP |-> Num(3)] >>]

----------------------------------------------------------------------------
(* load_csv under @st.cache_data, and frames *)

NoAlias == "none"

NoFrame == [tbl |-> NoTable, alias |-> NoAlias]

\* the object a caller gets shares the stored one (st.cache_resource semantics)
load_csv_shared(path, stored) == [tbl |-> stored, alias |-> path]

\* lines 18-20: st.cache_data hands every caller its own copy of the stored value
load_csv(path, stored) == [tbl |-> stored, alias |-> NoAlias]

\* df[c] = vals on a frame; a shared object changes in the store as well
AssignFrame(df, c, vals, dt) == [df EXCEPT !.tbl = SetColumn(df.tbl, c, vals, dt)]

StoreAfterAssign(store, df, newdf) ==
    IF df.alias = NoAlias THEN store ELSE [store EXCEPT ![df.alias] = newdf.tbl]

\* c.lower() of the header names that occur
lower(c) ==
    CASE c = "GNP" -> "gnp"
      [] c = "Population" -> "population"
      [] c = "Country" -> "country"
      [] OTHER -> c

RecognisedY == {"gnp", "gnp_per_capita", "gni", "gni_per_capita", "gdp", "gdp_per_capita"}

\* line 125
numeric_mbti_cols(t) ==
    SelectSeq2(t.cols, 1, { c \in Range(t.cols) : c # "Country" /\ is_numeric_dtype(t, c) })

\* line 128
indicator_cols(t) ==
    SelectSeq2(t.cols, 1, { c \in Range(t.cols) : lower(c) \in RecognisedY })

Ok == [kind |-> "ok", what |-> "", at |-> ""]
Halt(what, at) == [kind |-> "halt", what |-> what, at |-> at]
Raise(what, at) == [kind |-> "raise", what |-> what, at |-> at]

NoReport == [n_mbti |-> 0, n_gnp |-> 0, matched |-> 0, miss_mbti |-> {}, miss_gnp |-> {},
             none |-> TRUE]

----------------------------------------------------------------------------
(* The script pass, lines 89-160 *)

FreshPass ==
    /\ pc = "start"
    /\ df_mbti = NoFrame /\ df_gnp = NoFrame
    /\ mbti_cols = <<>> /\ candidate_y = <<>>
    /\ y_col = "" /\ log_scale = TRUE /\ use_abs_sort = TRUE
    /\ df_join = NoTable /\ report = NoReport
    /\ y_for_corr = "" /\ corr_df = <<>> /\ corr_df_display = <<>>
    /\ outcome = Ok

NormIdle == series = <<>> /\ raw = <<>> /\ norm_calls = 0

Init ==
    /\ FreshPass
    /\ cache = [p \in Paths |-> NoTable]
    /\ NormIdle

\* lines 93-94: an uploaded MBTI file is parsed, uncached
UploadMbti ==
    /\ pc = "start"
    /\ \E csv \in MbtiUploads : df_mbti' = [tbl |-> read_csv(csv), alias |-> NoAlias]
    /\ pc' = "mbti_loaded"
    /\ UNCHANGED <<cache, df_gnp, mbti_cols, candidate_y, y_col, log_scale, use_abs_sort,
                   df_join, report, y_for_corr, corr_df, corr_df_display, outcome>>
    /\ UNCHANGED normVars

\* lines 97-98: the default file through load_csv (parsed and stored on a miss)
LoadMbti ==
    /\ pc = "start"
    /\ LET stored == IF cache[MbtiPath] = NoTable THEN read_csv(DefaultFile(MbtiPath))
                     ELSE cache[MbtiPath]
       IN  /\ cache' = [cache EXCEPT ![MbtiPath] = stored]
           /\ df_mbti' = load_csv(MbtiPath, stored)
    /\ pc' = "mbti_loaded"
    /\ UNCHANGED <<df_gnp, mbti_cols, candidate_y, y_col, log_scale, use_abs_sort,
                   df_join, report, y_for_corr, corr_df, corr_df_display, outcome>>
    /\ UNCHANGED normVars

\* lines 99-101: no stored value and the file cannot be read
LoadMbtiFails ==
    /\ pc = "start"
    /\ cache[MbtiPath] = NoTable
    /\ pc' = "stopped"
    /\ outcome' = Halt("mbti file", "load")
    /\ UNCHANGED <<cache, df_mbti, df_gnp, mbti_cols, candidate_y, y_col, log_scale,
                   use_abs_sort, df_join, report, y_for_corr, corr_df, corr_df_display>>
    /\ UNCHANGED normVars

\* lines 107-108
UploadGnp ==
    /\ pc = "mbti_loaded"
    /\ \E csv \in GnpUploads : df_gnp' = [tbl |-> read_csv(csv), alias |-> NoAlias]
    /\ pc' = "gnp_loaded"
    /\ UNCHANGED <<cache, df_mbti, mbti_cols, candidate_y, y_col, log_scale, use_abs_sort,
                   df_join, report, y_for_corr, corr_df, corr_df_display, outcome>>
    /\ UNCHANGED normVars

\* lines 111-112
LoadGnp ==
    /\ pc = "mbti_loaded"
    /\ LET stored == IF cache[GnpPath] = NoTable THEN read_csv(DefaultFile(GnpPath))
                     ELSE cache[GnpPath]
       IN  /\ cache' = [cache EXCEPT ![GnpPath] = stored]
           /\ df_gnp' = load_csv(GnpPath, stored)
    /\ pc' = "gnp_loaded"
    /\ UNCHANGED <<df_mbti, mbti_cols, candidate_y, y_col, log_scale, use_abs_sort,
                   df_join, report, y_for_corr, corr_df, corr_df_display, outcome>>
    /\ UNCHANGED normVars

\* lines 113-115
LoadGnpFails ==
    /\ pc = "mbti_loaded"
    /\ cache[GnpPath] = NoTable
    /\ pc' = "stopped"
    /\ outcome' = Halt("gnp file", "load")
    /\ UNCHANGED <<cache, df_mbti, df_gnp, mbti_cols, candidate_y, y_col, log_scale,
                   use_abs_sort, df_join, report, y_for_corr, corr_df, corr_df_display>>
    /\ UNCHANGED normVars

\* lines 120-131: the Country check of the MBTI frame, mbti_cols, candidate_y
CheckColumns ==
    /\ pc = "gnp_loaded"
    /\ IF ~ HasColumn(df_mbti.tbl, "Country")
       THEN /\ pc' = "stopped"
            /\ outcome' = Halt("mbti Country column", "check")
            /\ UNCHANGED <<mbti_cols, candidate_y>>
       ELSE /\ mbti_cols' = numeric_mbti_cols(df_mbti.tbl)
            /\ candidate_y' = indicator_cols(df_gnp.tbl)
            /\ IF Len(indicator_cols(df_gnp.tbl)) = 0
               THEN pc' = "stopped" /\ outcome' = Halt("indicator column", "check")
               ELSE pc' = "checked" /\ UNCHANGED outcome
    /\ UNCHANGED <<cache, df_mbti, df_gnp, y_col, log_scale, use_abs_sort,
                   df_join, report, y_for_corr, corr_df, corr_df_display>>
    /\ UNCHANGED normVars

\* line 135: the GNP frame's Country_norm, NaN when it has no Country column
gnp_country_norm(t) ==
    IF HasColumn(t, "Country")
    THEN SetColumn(t, "Country_norm", normalize_country_name(Column(t, "Country")), "object")
    ELSE SetColumn(t, "Country_norm", [i \in 1..Len(t.rows) |-> NaN], "float64")

\* lines 134-135: the derived column is assigned on both working frames
Normalize ==
    /\ pc = "checked"
    /\ LET m == AssignFrame(df_mbti, "Country_norm",
                            normalize_country_name(Column(df_mbti.tbl, "Country")), "object")
           g == [df_gnp EXCEPT !.tbl = gnp_country_norm(df_gnp.tbl)]
       IN  /\ df_mbti' = m
           /\ df_gnp' = g
           /\ cache' = StoreAfterAssign(StoreAfterAssign(cache, df_mbti, m), df_gnp, g)
    /\ pc' = "normalized"
    /\ UNCHANGED <<mbti_cols, candidate_y, y_col, log_scale, use_abs_sort,
                   df_join, report, y_for_corr, corr_df, corr_df_display, outcome>>
    /\ UNCHANGED normVars

\* lines 139-141: the sidebar widgets
Sidebar ==
    /\ pc = "normalized"
    /\ \E i \in 1..Len(candidate_y) : y_col' = candidate_y[i]
    /\ log_scale' \in BOOLEAN
    /\ use_abs_sort' \in BOOLEAN
    /\ pc' = "configured"
    /\ UNCHANGED <<cache, df_mbti, df_gnp, mbti_cols, candidate_y,
                   df_join, report, y_for_corr, corr_df, corr_df_display, outcome>>
    /\ UNCHANGED normVars

\* lines 144-150: pd.merge raises, or df_join is bound
Join ==
    /\ pc = "configured"
    /\ LET j == join_frames(df_mbti.tbl, df_gnp.tbl, mbti_cols, y_col)
       IN  IF j.err = "none"
           THEN pc' = "joined" /\ df_join' = j.tbl /\ UNCHANGED outcome
           ELSE pc' = "stopped" /\ outcome' = Raise(j.err, "join") /\ UNCHANGED df_join
    /\ UNCHANGED <<cache, df_mbti, df_gnp, mbti_cols, candidate_y, y_col, log_scale,
                   use_abs_sort, report, y_for_corr, corr_df, corr_df_display>>
    /\ UNCHANGED normVars

\* lines 153-160
Report ==
    /\ pc = "joined"
    /\ report' = match_report(df_mbti.tbl, df_gnp.tbl, df_join)
    /\ pc' = "reported"
    /\ UNCHANGED <<cache, df_mbti, df_gnp, mbti_cols, candidate_y, y_col, log_scale,
                   use_abs_sort, df_join, y_for_corr, corr_df, corr_df_display, outcome>>
    /\ UNCHANGED normVars

----------------------------------------------------------------------------
(* np.log1p, scipy.stats.pearsonr / spearmanr                                *)
(*                                                                           *)
(* Numbers are integers.  log1p of a value >= 0 is kept in tenths (rounded), *)
(* which changes no correlation: both coefficients are scale invariant.  A   *)
(* coefficient r is kept as the integer sign(r) * floor(1000 * r^2), which   *)
(* orders coefficients as r does and orders magnitudes as |r| does; its      *)
(* p-value is kept as the pair it is a function of, (|r|, n).                *)

\* round(10 * ln(1 + v)) for the values v >= 0 that occur
Log1pTenths(v) ==
    CASE v = 0 -> 0
      [] v = 1 -> 7
      [] v = 2 -> 11
      [] v = 3 -> 14
      [] OTHER -> 14 + 2 * (v - 3)

\* np.log1p on one cell: NaN below -1, -inf at -1, no error raised
log1p(c) ==
    CASE c.k = "nan" -> NaN
      [] c.k = "neginf" -> NaN
      [] c.k = "num" /\ c.v < 0 - 1 -> NaN
      [] c.k = "num" /\ c.v = 0 - 1 -> NegInf
      [] OTHER -> Num(Log1pTenths(c.v))

RECURSIVE Sum(_, _)
Sum(f, n) == IF n = 0 THEN 0 ELSE f[n] + Sum(f, n - 1)

Abs(x) == IF x < 0 THEN 0 - x ELSE x

Sign(x) == IF x < 0 THEN 0 - 1 ELSE IF x > 0 THEN 1 ELSE 0

\* product-moment correlation of two integer sequences of equal length:
\* NaN for a constant input, otherwise the encoded coefficient
Moment(xs, ys) ==
    LET n == Len(xs)
        sx == Sum(xs, n)
        sy == Sum(ys, n)
        sxy == n * Sum([i \in 1..n |-> xs[i] * ys[i]], n) - sx * sy
        sxx == n * Sum([i \in 1..n |-> xs[i] * xs[i]], n) - sx * sx
        syy == n * Sum([i \in 1..n |-> ys[i] * ys[i]], n) - sy * sy
    IN  IF sxx = 0 \/ syy = 0 THEN NaN
        ELSE Num(Sign(sxy) * ((1000 * sxy * sxy) \div (sxx * syy)))

\* the two-sided p-value of a coefficient: a function of |r| and n
PValue(r, n) == IF r.k = "nan" THEN NaN ELSE [k |-> "p", r |-> Abs(r.v), n |-> n]

Finite(cells) == \A i \in 1..Len(cells) : cells[i].k = "num"

Values(cells) == [i \in 1..Len(cells) |-> cells[i].v]

\* what pearsonr does with a non-finite input depends on the scipy release:
\* ValueError from the norm's finiteness check, or a NaN coefficient
PearsonOnNonFinite == {"raise", "nan"}

pearsonr(xs, ys, lib) ==
    IF Finite(xs) /\ Finite(ys)
    THEN LET r == Moment(Values(xs), Values(ys))
         IN  [err |-> "none", r |-> r, p |-> PValue(r, Len(xs))]
    ELSE IF lib = "raise"
    THEN [err |-> "ValueError", r |-> NaN, p |-> NaN]
    ELSE [err |-> "none", r |-> NaN, p |-> NaN]

\* order of cells for ranking: -inf sorts below every number
Below(a, b) == (a.k = "neginf" /\ b.k = "num") \/ (a.k = "num" /\ b.k = "num" /\ a.v < b.v)

\* twice the average rank (ties share the mean of their ranks)
Rank2(cells) ==
    [i \in 1..Len(cells) |->
        2 * Cardinality({ j \in 1..Len(cells) : Below(cells[j], cells[i]) })
        + Cardinality({ j \in 1..Len(cells) : cells[j] = cells[i] }) + 1]

\* spearmanr: the product-moment correlation of the ranks
spearmanr(xs, ys) ==
    LET r == Moment(Rank2(xs), Rank2(ys))
    IN  [r |-> r, p |-> PValue(r, Len(xs))]

----------------------------------------------------------------------------
(* compute_correlations, lines 60-84 *)

\* line 67: df_join[[c, y_col]].dropna(): -inf is not a missing value
RECURSIVE dropna(_, _, _, _)
dropna(t, c, y, i) ==
    IF i > Len(t.rows) THEN <<>>
    ELSE (IF isna(t.rows[i][c]) \/ isna(t.rows[i][y]) THEN <<>> ELSE <<t.rows[i]>>)
         \o dropna(t, c, y, i + 1)

\* threshold off by one: three pairs still count as too few
too_few_inclusive(sub) == Len(sub) <= 3

\* line 68
too_few(sub) == Len(sub) < 3

\* lines 69-74
undefined_row(c, n) ==
    [MBTI |-> c, pearson_r |-> NaN, pearson_p |-> NaN,
     spearman_r |-> NaN, spearman_p |-> NaN, n |-> n]

\* lines 76-83, for a column with enough pairs
computed_row(c, sub, y, lib) ==
    LET xs == [i \in 1..Len(sub) |-> sub[i][c]]
        ys == [i \in 1..Len(sub) |-> sub[i][y]]
        pr == pearsonr(xs, ys, lib)
        sr == spearmanr(xs, ys)
    IN  [err |-> pr.err,
         row |-> [MBTI |-> c, pearson_r |-> pr.r, pearson_p |-> pr.p,
                  spearman_r |-> sr.r, spearman_p |-> sr.p, n |-> Len(sub)]]

\* the loop from column i on: KeyError when a selected column is absent,
\* the routine's error when it raises, otherwise the rows appended so far
RECURSIVE correlate_from(_, _, _, _, _)
correlate_from(t, cols, y, lib, i) ==
    IF i > Len(cols) THEN [err |-> "none", rows |-> <<>>]
    ELSE IF ~ (HasColumn(t, cols[i]) /\ HasColumn(t, y))
    THEN [err |-> "KeyError", rows |-> <<>>]
    ELSE LET sub == dropna(t, cols[i], y, 1)
             one == IF too_few(sub)
                    THEN [err |-> "none", row |-> undefined_row(cols[i], Len(sub))]
                    ELSE computed_row(cols[i], sub, y, lib)
             rest == correlate_from(t, cols, y, lib, i + 1)
         IN  IF one.err # "none" THEN [err |-> one.err, rows |-> <<>>]
             ELSE IF rest.err # "none" THEN rest
             ELSE [err |-> "none", rows |-> <<one.row>> \o rest.rows]

compute_correlations(t, cols, y, lib) == correlate_from(t, cols, y, lib, 1)

----------------------------------------------------------------------------
(* sort_values, lines 178-179 *)

\* line 178: a Series named pearson_r either way; .abs() keeps the name
sort_key(corr, abs_sort) ==
    [name |-> "pearson_r",
     values |-> [i \in 1..Len(corr) |->
                    IF abs_sort /\ corr[i].pearson_r.k = "num"
                    THEN Num(Abs(corr[i].pearson_r.v)) ELSE corr[i].pearson_r]]

\* line 179: by=sort_key.name names a column of corr_df, whose values are used
sort_column(corr, key) == [i \in 1..Len(corr) |-> corr[i][key.name]]

\* insert position i into an index list ordered by descending value (stable)
RECURSIVE InsertDesc(_, _, _)
InsertDesc(order, i, col) ==
    IF Len(order) = 0 THEN <<i>>
    ELSE IF col[order[1]].v >= col[i].v
         THEN <<order[1]>> \o InsertDesc(Tail(order), i, col)
         ELSE <<i>> \o order

RECURSIVE ArgSortDesc(_, _)
ArgSortDesc(idx, col) ==
    IF Len(idx) = 0 THEN <<>>
    ELSE InsertDesc(ArgSortDesc(SubSeq(idx, 1, Len(idx) - 1), col), idx[Len(idx)], col)

Indices(col, numeric) ==
    SelectSeq2([i \in 1..Len(col) |-> i], 1,
               { i \in 1..Len(col) : (col[i].k = "num") = numeric })

\* DataFrame.sort_values(by=..., ascending=False): descending, missing values last
sort_values(corr, col) ==
    LET order == ArgSortDesc(Indices(col, TRUE), col) \o Indices(col, FALSE)
    IN  [i \in 1..Len(corr) |-> corr[order[i]]]

----------------------------------------------------------------------------
(* The script pass, lines 162-179 *)

\* lines 163-169
Transform ==
    /\ pc = "reported"
    /\ IF log_scale
       THEN /\ df_join' = SetColumn(df_join, "Y_trans",
                                    [i \in 1..Len(df_join.rows) |->
                                        log1p(df_join.rows[i]["Y_value"])], "float64")
            /\ y_for_corr' = "Y_trans"
       ELSE /\ y_for_corr' = "Y_value"
            /\ UNCHANGED df_join
    /\ pc' = "transformed"
    /\ UNCHANGED <<cache, df_mbti, df_gnp, mbti_cols, candidate_y, y_col, log_scale,
                   use_abs_sort, report, corr_df, corr_df_display, outcome>>
    /\ UNCHANGED normVars

\* line 175: the frame handed over has Y_value renamed to y_col and Y_trans
\* renamed to y_for_corr
passed_frame(joined, y, yc) == rename(joined, {<<"Y_value", y>>, <<"Y_trans", yc>>})

\* line 175
Correlate ==
    /\ pc = "transformed"
    /\ \E lib \in PearsonOnNonFinite :
         LET res == compute_correlations(passed_frame(df_join, y_col, y_for_corr),
                                         mbti_cols, y_for_corr, lib)
         IN  IF res.err = "none"
             THEN pc' = "correlated" /\ corr_df' = res.rows /\ UNCHANGED outcome
             ELSE pc' = "stopped" /\ outcome' = Raise(res.err, "correlate")
                  /\ UNCHANGED corr_df
    /\ UNCHANGED <<cache, df_mbti, df_gnp, mbti_cols, candidate_y, y_col, log_scale,
                   use_abs_sort, df_join, report, y_for_corr, corr_df_display>>
    /\ UNCHANGED normVars

\* lines 178-179: a corr_df built from no row has no pearson_r column
Sort ==
    /\ pc = "correlated"
    /\ IF Len(corr_df) = 0
       THEN pc' = "stopped" /\ outcome' = Raise("KeyError", "sort")
            /\ UNCHANGED corr_df_display
       ELSE /\ corr_df_display' =
                  sort_values(corr_df, sort_column(corr_df, sort_key(corr_df, use_abs_sort)))
            /\ pc' = "sorted"
            /\ UNCHANGED outcome
    /\ UNCHANGED <<cache, df_mbti, df_gnp, mbti_cols, candidate_y, y_col, log_scale,
                   use_abs_sort, df_join, report, y_for_corr, corr_df>>
    /\ UNCHANGED normVars

\* the next user interaction reruns the script; only the store survives
Rerun ==
    /\ pc \in {"sorted", "stopped"}
    /\ pc' = "start"
    /\ df_mbti' = NoFrame /\ df_gnp' = NoFrame
    /\ mbti_cols' = <<>> /\ candidate_y' = <<>>
    /\ y_col' = "" /\ log_scale' = TRUE /\ use_abs_sort' = TRUE
    /\ df_join' = NoTable /\ report' = NoReport
    /\ y_for_corr' = "" /\ corr_df' = <<>> /\ corr_df_display' = <<>>
    /\ outcome' = Ok
    /\ UNCHANGED cache
    /\ UNCHANGED normVars

Next ==
    \/ UploadMbti \/ LoadMbti \/ LoadMbtiFails
    \/ UploadGnp \/ LoadGnp \/ LoadGnpFails
    \/ CheckColumns \/ Normalize \/ Sidebar \/ Join \/ Report
    \/ Transform \/ Correlate \/ Sort \/ Rerun

Spec == Init /\ [][Next]_vars

----------------------------------------------------------------------------
(* The correlation stage on its own: passes that have reached the match      *)
(* report with uploads whose countries all match one to one.  Neither dropna,*)
(* log1p, pearsonr nor spearmanr looks at the order of the rows, so the rows *)
(* are enumerated up to permutation.                                         *)

MaxJoinRows == 3

InfjValues == <<NaN, Num(1), Num(2)>>

EnfpValues == <<Num(1), Num(2)>>

GnpValues == <<Num(0 - 2), Num(0 - 1), Num(0), Num(3)>>

RowKinds == Len(InfjValues) * Len(EnfpValues) * Len(GnpValues)

KindRow(k) ==
    [INFJ |-> InfjValues[(k % Len(InfjValues)) + 1],
     ENFP |-> EnfpValues[((k \div Len(InfjValues)) % Len(EnfpValues)) + 1],
     GNP |-> GnpValues[(k \div (Len(InfjValues) * Len(EnfpValues))) + 1]]

\* non-decreasing sequences of row kinds, of length n
RECURSIVE KindSeqs(_)
KindSeqs(n) ==
    IF n = 0 THEN {<<>>}
    ELSE UNION { { Append(s, k) : k \in { m \in 0..(RowKinds - 1) :
                                            Len(s) = 0 \/ s[Len(s)] <= m } } :
                 s \in KindSeqs(n - 1) }

CorrNames == << <<"Peru">>, <<"Chile">>, <<"Kenya">>, <<"Japan">>, <<"Spain">>, <<"Fiji">> >>

MbtiCsvOf(ks) ==
    [cols |-> <<"Country", "INFJ", "ENFP">>,
     rows |-> [i \in 1..Len(ks) |->
                 [Country |-> Str(CorrNames[i]), INFJ |-> KindRow(ks[i]).INFJ,
                  ENFP |-> KindRow(ks[i]).ENFP]]]

GnpCsvOf(ks) ==
    [cols |-> <<"Country", "GNP">>,
     rows |-> [i \in 1..Len(ks) |->
                 [Country |-> Str(CorrNames[i]), GNP |-> KindRow(ks[i]).GNP]]]

\* the state of a pass at the match report, from its two uploads and the
\* selected indicator column
AtReport(mcsv, gcsv, yc) ==
    /\ pc = "reported"
    /\ df_mbti = AssignFrame([tbl |-> read_csv(mcsv), alias |-> NoAlias], "Country_norm",
                             normalize_country_name(Column(read_csv(mcsv), "Country")),
                             "object")
    /\ df_gnp = [tbl |-> gnp_country_norm(read_csv(gcsv)), alias |-> NoAlias]
    /\ mbti_cols = numeric_mbti_cols(read_csv(mcsv))
    /\ candidate_y = indicator_cols(read_csv(gcsv))
    /\ y_col = yc
    /\ df_join = join_frames(df_mbti.tbl, df_gnp.tbl, mbti_cols, y_col).tbl
    /\ report = match_report(df_mbti.tbl, df_gnp.tbl, df_join)
    /\ y_for_corr = "" /\ corr_df = <<>> /\ corr_df_display = <<>>
    /\ outcome = Ok

InitCorr ==
    /\ \E n \in 0..MaxJoinRows : \E ks \in KindSeqs(n) :
            AtReport(MbtiCsvOf(ks), GnpCsvOf(ks), "GNP")
    /\ log_scale \in BOOLEAN
    /\ use_abs_sort \in BOOLEAN
    /\ cache = [p \in Paths |-> NoTable]
    /\ NormIdle

NextCorr == Transform \/ Correlate \/ Sort

SpecCorr == InitCorr /\ [][NextCorr]_vars

----------------------------------------------------------------------------
(* The normalizer on its own: a one-element Series normalized repeatedly *)

MaxNormCalls == 2

InitNorm ==
    /\ FreshPass
    /\ cache = [p \in Paths |-> NoTable]
    /\ raw \in { <<Str(s)>> : s \in RawStrings } \cup { <<NaN>> }
    /\ series = raw
    /\ norm_calls = 0

NormalizeSeries ==
    /\ norm_calls < MaxNormCalls
    /\ series' = normalize_country_name(series)
    /\ norm_calls' = norm_calls + 1
    /\ UNCHANGED raw
    /\ UNCHANGED passVars

NextNorm == NormalizeSeries

SpecNorm == InitNorm /\ [][NextNorm]_vars

----------------------------------------------------------------------------
(* Properties *)

JoinAttempted ==
    \/ pc \in {"joined", "reported", "transformed", "correlated", "sorted"}
    \/ pc = "stopped" /\ outcome.at \in {"join", "correlate", "sort"}

CorrelateAttempted ==
    \/ pc \in {"correlated", "sorted"}
    \/ pc = "stopped" /\ outcome.at \in {"correlate", "sort"}

PassEnded ==
    \/ pc = "sorted"
    \/ pc = "stopped" /\ outcome.at \in {"correlate", "sort"}

Transformed ==
    \/ pc \in {"transformed", "correlated", "sorted"}
    \/ pc = "stopped" /\ outcome.at \in {"correlate", "sort"}

\* the economic values on which log1p is defined and finite
InLogDomain(t) ==
    \A i \in 1..Len(t.rows) : t.rows[i]["Y_value"].k = "num" => t.rows[i]["Y_value"].v >= 0

\* C1: for either setting of the log flag, the correlation step yields exactly
\* one result per personality-type column, each computed against log1p of the
\* economic value when the flag is on and against the raw value when it is off
\* (stated here for economic values in the domain of log1p).
C1_OneResultPerColumn ==
    (CorrelateAttempted /\ InLogDomain(df_join)) =>
        /\ ~ (pc = "stopped" /\ outcome.at = "correlate")
        /\ corr_df = compute_correlations(df_join, mbti_cols,
                                          IF log_scale THEN "Y_trans" ELSE "Y_value",
                                          "nan").rows

\* the pairs compute_correlations keeps for column c
Pairs(c) == dropna(df_join, c, y_for_corr, 1)

Varies(cells) == \E i, j \in 1..Len(cells) : cells[i] # cells[j]

GnpNameCells == Column(df_gnp.tbl, "Country_norm")

DuplicateGnpName ==
    \E i, j \in 1..Len(GnpNameCells) : i # j /\ GnpNameCells[i] = GnpNameCells[j]

\* C3: when two rows of the economic table share a normalized country name,
\* the join raises the ambiguous-key error and binds no joined row.
C3_AmbiguousJoinFails ==
    (JoinAttempted /\ HasColumn(df_gnp.tbl, "Country") /\ DuplicateGnpName) =>
        /\ pc = "stopped"
        /\ outcome = Raise("MergeError", "join")
        /\ df_join = NoTable

\* "Vietnam" and "Viet<TAB>Nam" both present on the economic side
C3_Witness ==
    /\ pc = "stopped" /\ outcome = Raise("MergeError", "join")
    /\ HasColumn(df_gnp.tbl, "Country")
    /\ \E i, j \in 1..Len(df_gnp.tbl.rows) :
         /\ df_gnp.tbl.rows[i]["Country"] # df_gnp.tbl.rows[j]["Country"]
         /\ df_gnp.tbl.rows[i]["Country_norm"] = df_gnp.tbl.rows[j]["Country_norm"]

InputDomainFlagged == pc = "stopped" /\ outcome.kind = "halt" /\ outcome.at = "transform"

\* C4: with the log transform on, every joined row whose economic value is
\* present keeps a present, finite transformed value, or the pass flags an
\* input-domain error.
C4_TransformKeepsPresence ==
    (Transformed /\ log_scale) =>
        \/ InputDomainFlagged
        \/ \A i \in 1..Len(df_join.rows) :
              ~ isna(df_join.rows[i]["Y_value"]) => df_join.rows[i]["Y_trans"].k = "num"

\* C5: normalizing an already normalized Series changes nothing.
C5_Idempotent == [][norm_calls >= 1 => series' = series]_vars

\* a padded alias key, rewritten by the first call and stable under the second
C5_Witness ==
    /\ norm_calls = 2
    /\ raw[1] = Str(<<" ", "Congo", " ", "(Brazzaville)", "\t", " ">>)
    /\ series[1] = Str(<<"Congo">>)

\* C6: the match report is symmetric: unmatched + matched = distinct names,
\* on the personality side and on the economic side.
C6_ReportSymmetric ==
    report # NoReport =>
        /\ Cardinality(report.miss_mbti) + report.matched = report.n_mbti
        /\ Cardinality(report.miss_gnp) + report.matched = report.n_gnp

\* C7: a table without the Country column never reaches the join: the pass
\* halts with a message before any join, report or correlation result exists.
C7_MissingCountryHalts ==
    JoinAttempted =>
        /\ HasColumn(df_mbti.tbl, "Country")
        /\ HasColumn(df_gnp.tbl, "Country")

EmptyIntersection ==
    /\ HasColumn(df_mbti.tbl, "Country") /\ HasColumn(df_gnp.tbl, "Country")
    /\ pyset(Column(df_mbti.tbl, "Country_norm")) \cap pyset(GnpNameCells) = {}
    /\ ~ DuplicateGnpName

\* C8: with no common normalized name the pass does not fail: the joined table
\* has no row, zero matches are reported, and no correlation result is defined
\* (every result has sample size 0 and undefined coefficients).
C8_EmptyIntersectionPasses ==
    (PassEnded /\ EmptyIntersection) =>
        /\ pc = "sorted"
        /\ Len(df_join.rows) = 0
        /\ report.matched = 0
        /\ \A i \in 1..Len(corr_df) : corr_df[i].n = 0 /\ corr_df[i].pearson_r = NaN

\* C9: whatever a pass does (derived columns on its working frames, a halt, an
\* exception), a stored table stays the table as parsed, without Country_norm.
C9_CacheUnchanged ==
    \A p \in Paths :
        cache[p] # NoTable =>
            /\ cache[p] = read_csv(DefaultFile(p))
            /\ ~ HasColumn(cache[p], "Country_norm")

\* a pass that took both default files, added the derived columns to its
\* frames and then died in the correlation step
C9_Witness ==
    /\ pc = "stopped" /\ outcome.kind = "raise"
    /\ cache[MbtiPath] # NoTable /\ cache[GnpPath] # NoTable
    /\ HasColumn(df_mbti.tbl, "Country_norm")
    /\ Select(df_mbti.tbl, cache[MbtiPath].cols) = cache[MbtiPath]
    /\ Select(df_gnp.tbl, cache[GnpPath].cols) = cache[GnpPath]

SortValue(row) == IF use_abs_sort THEN Abs(row.pearson_r.v) ELSE row.pearson_r.v

\* C10: the displayed rows are the computed rows, in non-increasing order of
\* |pearson_r| in magnitude mode and of pearson_r in signed mode.
C10_SortFollowsMode ==
    pc = "sorted" =>
        /\ Len(corr_df_display) = Len(corr_df)
        /\ Range(corr_df_display) = Range(corr_df)
        /\ \A i, j \in 1..Len(corr_df_display) :
              (i < j /\ corr_df_display[i].pearson_r.k = "num"
                     /\ corr_df_display[j].pearson_r.k = "num") =>
                 SortValue(corr_df_display[i]) >= SortValue(corr_df_display[j])

====
